---- MODULE Spec2Model ----
(***************************************************************************)
(* Mask derivation scripts of the repository:                              *)
(*   resize_mask.py          resize_binary_mask_cv2, main                  *)
(*   mask-generator.py       the per-tier / per-image mask loop            *)
(*   add_json_mask_paths.py  add_mask_paths_to_transforms                  *)
(*   apply_mask_colorize.py  apply_mask_and_colorize, process_folder       *)
(*   pil_to_numpy_debug.py   test_mask_conversion                          *)
(* Each script is one program; its state is one record variable.           *)
(***************************************************************************)
EXTENDS Integers, Sequences, FiniteSets, TLC

VARIABLES rs, gen, mf, cz, dbg

vars == <<rs, gen, mf, cz, dbg>>

(***************************************************************************)
(* Bounds of the model.                                                    *)
(***************************************************************************)
\* largest height and width of a mask file on disk
MaxDim == 2
\* largest target width / height handed to a resize
MaxTarget == 3
\* longest file_path whose mask path is derived
MaxPathLen == 5
\* most frames of a manifest
MaxFrames == 2
\* most files of a folder handed to process_folder
MaxFiles == 2
\* most runs of mask-generator.py over the same directories
MaxRuns == 2
\* widest one-row mask and widest target of a scan-line resize
MaxWide == 14
MaxWideTarget == 18

(***************************************************************************)
(* Arrays: a single-channel uint8 raster is [h, w, px], px indexed by      *)
(* <<row, column>> from 0 as numpy does.                                   *)
(***************************************************************************)
Cells(h, w) == (0 .. h - 1) \X (0 .. w - 1)

\* the value cv2.imread returns for a file it cannot decode, and the
\* content of a file that does not exist
NoArray == [h |-> 0, w |-> 0, px |-> [p \in {} |-> 0]]

Min(a, b) == IF a < b THEN a ELSE b

\* a mask holding two gray levels: hi on the cells of S, lo elsewhere
TwoLevel(h, w, S, lo, hi) ==
    [h |-> h, w |-> w, px |-> [p \in Cells(h, w) |-> IF p \in S THEN hi ELSE lo]]

\* gray-level pairs: clean binary, intermediate grays, the two values
\* around the threshold
LevelPairs == {<<0, 255>>, <<64, 190>>, <<127, 128>>}

\* the decodable mask files: every shape up to MaxDim x MaxDim, every
\* placement of the two levels
Masks ==
    UNION { UNION { { TwoLevel(h, w, S, lv[1], lv[2]) :
                        S \in SUBSET Cells(h, w), lv \in LevelPairs } :
                    w \in 1 .. MaxDim } :
            h \in 1 .. MaxDim }

PixelValues(a) == { a.px[p] : p \in DOMAIN a.px }

\* cv2.threshold(src, thresh, maxval, cv2.THRESH_BINARY) without the
\* comparison: every value is passed through
threshold_passthrough(src, thresh, maxval) == src

\* cv2.threshold(src, thresh, maxval, cv2.THRESH_BINARY):
\* dst = maxval where src > thresh, 0 elsewhere
threshold(src, thresh, maxval) ==
    [src EXCEPT !.px = [p \in DOMAIN src.px |->
                          IF src.px[p] > thresh THEN maxval ELSE 0]]

(***************************************************************************)
(* IEEE-754 double arithmetic, as cv2.resize does it on its scale factors. *)
(* A positive double is [a, b, c, e]: the 53-bit significand               *)
(* a * 2^36 + b * 2^18 + c (2^16 <= a < 2^17, b and c below 2^18) times    *)
(* 2^e; every intermediate integer stays below 2^31.                       *)
(***************************************************************************)
Limb == 2^18

\* the n next quotient bits of r / d for integers 0 <= r < d, appended to
\* the bits q; the remainder that is left
RECURSIVE div_bits(_, _, _, _)
div_bits(r, d, n, q) ==
    IF n = 0 THEN [q |-> q, r |-> r]
    ELSE IF 2 * r >= d THEN div_bits(2 * r - d, d, n - 1, 2 * q + 1)
         ELSE div_bits(2 * r, d, n - 1, 2 * q)

\* the next double above f
fp_round_up(f) ==
    IF f.c + 1 < Limb THEN [f EXCEPT !.c = @ + 1]
    ELSE IF f.b + 1 < Limb THEN [f EXCEPT !.c = 0, !.b = @ + 1]
    ELSE IF f.a + 1 < 2^17 THEN [f EXCEPT !.c = 0, !.b = 0, !.a = @ + 1]
    ELSE [a |-> 2^16, b |-> 0, c |-> 0, e |-> f.e + 1]

\* f, or the next double above it when the part cut off rounds up
fp_round(f, up) == IF up THEN fp_round_up(f) ELSE f

\* (double)n / dn, the last 18 bits qc and the rounding: to nearest, ties
\* to even
fp_div_round(a, b, qc, d, k) ==
    fp_round([a |-> a, b |-> b, c |-> qc.q, e |-> k - 52],
             2 * qc.r > d \/ (2 * qc.r = d /\ qc.q % 2 = 1))

\* (double)n / dn, the middle 18 bits qb
fp_div_low(a, qb, d, k) == fp_div_round(a, qb.q, div_bits(qb.r, d, 18, 0), d, k)

\* (double)n / dn, the leading 17 bits qa
fp_div_mid(qa, d, k) == fp_div_low(qa.q, div_bits(qa.r, d, 18, 0), d, k)

\* (double)n / dn for 2^k <= n / dn < 2^(k + 1)
fp_div_scaled(n, dn, k) ==
    IF k >= 0
    THEN fp_div_mid(div_bits(n - dn * 2^k, dn * 2^k, 16, 1), dn * 2^k, k)
    ELSE fp_div_mid(div_bits(n * 2^(0 - k) - dn, dn, 16, 1), dn, k)

\* (double)n / dn for integers 1 <= n, dn < 2^12
fp_div(n, dn) ==
    fp_div_scaled(n, dn,
                  CHOOSE k \in -12 .. 12 :
                      IF k >= 0
                      THEN dn * 2^k <= n /\ n < dn * 2^(k + 1)
                      ELSE dn <= n * 2^(0 - k) /\ n * 2^(0 - k) < 2 * dn)

\* significands <<a, b, c>>: twice x, x >= y, x - y for x >= y
big_double(x) ==
    <<2 * x[1] + (2 * x[2] + (2 * x[3]) \div Limb) \div Limb,
      (2 * x[2] + (2 * x[3]) \div Limb) % Limb,
      (2 * x[3]) % Limb>>

big_geq(x, y) ==
    \/ x[1] > y[1]
    \/ x[1] = y[1] /\ x[2] > y[2]
    \/ x[1] = y[1] /\ x[2] = y[2] /\ x[3] >= y[3]

big_sub(x, y) ==
    <<x[1] - y[1] - (IF x[2] - y[2] - (IF x[3] < y[3] THEN 1 ELSE 0) < 0 THEN 1 ELSE 0),
      (x[2] - y[2] - (IF x[3] < y[3] THEN 1 ELSE 0) + Limb) % Limb,
      (x[3] - y[3] + Limb) % Limb>>

\* the n next quotient bits of r / m for significands 0 <= r < m, r2 being
\* twice r
RECURSIVE recip_bits(_, _, _, _)
recip_step(r2, m, n, q) ==
    IF big_geq(r2, m)
    THEN recip_bits(big_sub(r2, m), m, n - 1, 2 * q + 1)
    ELSE recip_bits(r2, m, n - 1, 2 * q)

recip_bits(r, m, n, q) ==
    IF n = 0 THEN [q |-> q, r |-> r] ELSE recip_step(big_double(r), m, n, q)

\* 1. / f: the rounding, r2 being twice the remainder
fp_recip_round(a, b, c, r2, m, e) ==
    fp_round([a |-> a, b |-> b, c |-> c, e |-> 0 - 105 - e],
             big_geq(r2, m) /\ (r2 # m \/ c % 2 = 1))

\* 1. / f: the last 18 bits qc
fp_recip_low(a, b, qc, m, e) ==
    fp_recip_round(a, b, qc.q, big_double(qc.r), m, e)

\* 1. / f: the middle 18 bits qb
fp_recip_mid(a, qb, m, e) ==
    fp_recip_low(a, qb.q, recip_bits(qb.r, m, 18, 0), m, e)

\* 1. / f: the leading 17 bits qa
fp_recip_high(qa, m, e) ==
    fp_recip_mid(qa.q, recip_bits(qa.r, m, 18, 0), m, e)

\* 1. / f, rounded to nearest, ties to even
fp_recip(f) ==
    IF <<f.a, f.b, f.c>> = <<2^16, 0, 0>>
    THEN [a |-> 2^16, b |-> 0, c |-> 0, e |-> 0 - 104 - f.e]
    ELSE fp_recip_high(recip_bits(<<2^16, 0, 0>>, <<f.a, f.b, f.c>>, 17, 0),
                       <<f.a, f.b, f.c>>, f.e)

\* cvFloor(g) for a double g < 2^17
fp_floor(g) == IF 0 - g.e - 36 >= 18 THEN 0 ELSE g.a \div 2^(0 - g.e - 36)

\* x * f: the product q cut to 53 bits, rem the part cut off of two_t
fp_mul_round(q, rem, two_t) ==
    fp_round(q, two_t > 1 /\ (2 * rem > two_t \/ (2 * rem = two_t /\ q.c % 2 = 1)))

\* x * f: the product a0 * 2^36 + b * 2^18 + c of t bits beyond 53
fp_mul_cut(a0, b, c, e, two_t) ==
    fp_mul_round([a |-> a0 \div two_t,
                  b |-> b \div two_t + (a0 % two_t) * (Limb \div two_t),
                  c |-> c \div two_t + (b % two_t) * (Limb \div two_t),
                  e |-> e],
                 c % two_t, two_t)

\* x * f: the product's limbs, the top one a0 of 17 bits or more
fp_mul_limbs(a0, b, c, e, t) == fp_mul_cut(a0, b, c, e + t, 2^t)

\* x * f: the limbs b0 and c0 before their carries
fp_mul_carry(x, f, b0, c0) ==
    fp_mul_limbs(x * f.a + b0 \div Limb, b0 % Limb, c0 % Limb, f.e,
                 (CHOOSE n \in 17 .. 30 :
                      2^(n - 1) <= x * f.a + b0 \div Limb
                          /\ x * f.a + b0 \div Limb < 2^n) - 17)

\* cvFloor(x * f) for an integer 0 <= x < 2^12 and a double f with
\* x * f < 2^17: the product is rounded to a double, then floored
fp_mul_floor(x, f) ==
    IF x = 0 THEN 0
    ELSE fp_floor(fp_mul_carry(x, f, x * f.b + (x * f.c) \div Limb, x * f.c))

\* resizeNN: ifx = 1. / fx for fx = (double)dsize / ssize
inv_scale(ssize, dsize) == fp_recip(fp_div(dsize, ssize))

\* the source index taken one further: cvFloor(d * ifx) + 1
nearest_index_next(d, ifx, ssize) == Min(fp_mul_floor(d, ifx) + 1, ssize - 1)

\* resizeNN: the source index read for destination index d,
\* min(cvFloor(d * ifx), ssize - 1)
nearest_index(d, ifx, ssize) == Min(fp_mul_floor(d, ifx), ssize - 1)

\* cv2.resize with dsize read as (height, width)
resize_dsize_swapped(src, dwidth, dheight) ==
    LET resizeNN(ifx, ify) ==
            [h |-> dwidth, w |-> dheight,
             px |-> [p \in Cells(dwidth, dheight) |->
                       src.px[<<nearest_index(p[1], ify, src.h),
                                nearest_index(p[2], ifx, src.w)>>]]]
    IN CHOOSE dst \in { resizeNN(ifx, ify) :
                          ifx \in {inv_scale(src.w, dheight)},
                          ify \in {inv_scale(src.h, dwidth)} } : TRUE

\* cv2.resize(src, (dwidth, dheight), interpolation=cv2.INTER_NEAREST)
\* for dwidth > 0 and dheight > 0: the result has dheight rows and dwidth
\* columns; the two scale factors ifx and ify are computed once
resize(src, dwidth, dheight) ==
    LET resizeNN(ifx, ify) ==
            [h |-> dheight, w |-> dwidth,
             px |-> [p \in Cells(dheight, dwidth) |->
                       src.px[<<nearest_index(p[1], ify, src.h),
                                nearest_index(p[2], ifx, src.w)>>]]]
    IN CHOOSE dst \in { resizeNN(ifx, ify) :
                          ifx \in {inv_scale(src.w, dwidth)},
                          ify \in {inv_scale(src.h, dheight)} } : TRUE

(***************************************************************************)
(* resize_mask.py                                                          *)
(*   rs.readable, rs.mask   the file at mask_path                          *)
(*   rs.target_width/height the arguments                                  *)
(*   rs.out_dir, rs.out_file the output directory and the file at          *)
(*                          output_path                                    *)
(*   rs.writable            whether cv2.imwrite can write output_path      *)
(*   rs.ret, rs.err         what resize_binary_mask_cv2 returned / raised  *)
(***************************************************************************)
RsInit ==
    /\ gen = [pc |-> "idle"] /\ mf = [pc |-> "idle"] /\ cz = [pc |-> "idle"]
    /\ dbg = [pc |-> "idle"]
    /\ \E readable \in BOOLEAN, m \in Masks, ok \in BOOLEAN,
          tw \in -1 .. MaxTarget, th \in -1 .. MaxTarget :
        rs = [pc |-> "main", readable |-> readable, writable |-> ok,
              mask |-> IF readable THEN m ELSE NoArray,
              target_width |-> tw, target_height |-> th,
              out_dir |-> FALSE, out_file |-> NoArray,
              ret |-> NoArray, err |-> "none", printed |-> "none"]

\* the body of resize_binary_mask_cv2 with os.makedirs moved before
\* cv2.resize: the output directory is made before the size is looked at
resize_binary_mask_cv2_body_makedirs_first(r) ==
    IF ~r.readable
    THEN [r EXCEPT !.pc = "raised", !.err = "FileNotFoundError"]
    ELSE IF r.target_width <= 0 \/ r.target_height <= 0
         THEN [r EXCEPT !.pc = "raised", !.err = "cv2.error", !.out_dir = TRUE]
         ELSE LET resized_mask ==
                      resize(threshold(r.mask, 127, 255),
                             r.target_width, r.target_height)
              IN [r EXCEPT !.pc = "returned", !.out_dir = TRUE,
                           !.out_file = IF r.writable THEN resized_mask ELSE @,
                           !.ret = resized_mask]

\* the body of resize_binary_mask_cv2 on the state r
resize_binary_mask_cv2_body(r) ==
    LET mask == r.mask IN
    IF ~r.readable
    THEN [r EXCEPT !.pc = "raised", !.err = "FileNotFoundError"]
    ELSE LET binary_mask == threshold(mask, 127, 255) IN
         IF r.target_width <= 0 \/ r.target_height <= 0
         THEN [r EXCEPT !.pc = "raised", !.err = "cv2.error"]
         ELSE LET resized_mask ==
                      resize(binary_mask, r.target_width, r.target_height)
              IN [r EXCEPT !.pc = "returned", !.out_dir = TRUE,
                           !.out_file = IF r.writable THEN resized_mask ELSE @,
                           !.ret = resized_mask]

resize_binary_mask_cv2 ==
    /\ rs.pc = "main"
    /\ rs' = resize_binary_mask_cv2_body(rs)
    /\ UNCHANGED <<gen, mf, cz, dbg>>

\* main: the success line after the call returned
rs_main_success ==
    /\ rs.pc = "returned"
    /\ rs' = [rs EXCEPT !.pc = "exit", !.printed = "success"]
    /\ UNCHANGED <<gen, mf, cz, dbg>>

\* main: except Exception as e: print(...)
rs_main_except ==
    /\ rs.pc = "raised"
    /\ rs' = [rs EXCEPT !.pc = "exit", !.printed = "error"]
    /\ UNCHANGED <<gen, mf, cz, dbg>>

RsNext == resize_binary_mask_cv2 \/ rs_main_success \/ rs_main_except

SpecResize == RsInit /\ [][RsNext]_vars

\* one-row masks up to MaxWide wide: lo on the first bw columns, hi on
\* the others
WideMasks ==
    UNION { { TwoLevel(1, w, Cells(1, w) \ Cells(1, bw), lv[1], lv[2]) :
                bw \in 0 .. w, lv \in LevelPairs } :
            w \in 1 .. MaxWide }

\* the mask a with rows and columns exchanged
Transposed(a) ==
    [h |-> a.w, w |-> a.h, px |-> [p \in Cells(a.w, a.h) |-> a.px[<<p[2], p[1]>>]]]

\* resize_mask.py on a one-row or one-column mask: the long side is
\* resized to any length up to MaxWideTarget, the short side to 1 or 2
WideInit ==
    /\ gen = [pc |-> "idle"] /\ mf = [pc |-> "idle"] /\ cz = [pc |-> "idle"]
    /\ dbg = [pc |-> "idle"]
    /\ \E readable \in BOOLEAN, m \in WideMasks, ok \in BOOLEAN, tall \in BOOLEAN,
          long \in 0 .. MaxWideTarget, short \in 1 .. 2 :
        rs = [pc |-> "main", readable |-> readable, writable |-> ok,
              mask |-> IF ~readable THEN NoArray
                       ELSE IF tall THEN Transposed(m) ELSE m,
              target_width |-> IF tall THEN short ELSE long,
              target_height |-> IF tall THEN long ELSE short,
              out_dir |-> FALSE, out_file |-> NoArray,
              ret |-> NoArray, err |-> "none", printed |-> "none"]

SpecWide == WideInit /\ [][RsNext]_vars

(***************************************************************************)
(* Text: a str is the tuple of its characters.                             *)
(***************************************************************************)
\* s.rfind(ch) + 1: the last position of ch in s, 0 when there is none
rfind(s, ch) ==
    LET hits == { i \in 1 .. Len(s) : s[i] = ch }
    IN IF hits = {} THEN 0 ELSE CHOOSE i \in hits : \A j \in hits : j <= i

\* s.endswith(suffix)
endswith(s, suffix) ==
    /\ Len(suffix) <= Len(s)
    /\ SubSeq(s, Len(s) - Len(suffix) + 1, Len(s)) = suffix

\* os.path.join(a, b) on posix
os_path_join(a, b) ==
    IF Len(b) > 0 /\ b[1] = "/" THEN b
    ELSE IF a = <<>> \/ a[Len(a)] = "/" THEN a \o b
    ELSE a \o <<"/">> \o b

\* os.path.basename(p) cut at the first separator instead of the last
basename_first_sep(p) ==
    LET hits == { i \in 1 .. Len(p) : p[i] = "/" }
        i == IF hits = {} THEN 0 ELSE CHOOSE k \in hits : \A j \in hits : k <= j
    IN SubSeq(p, i + 1, Len(p))

\* os.path.basename(p): the text after the last separator
os_path_basename(p) == SubSeq(p, rfind(p, "/") + 1, Len(p))

\* cv2.imwrite(path, img) on the file system fs (path -> array); ok is
\* whether the encoder could write the file: when it could not, imwrite
\* returns False without raising and no file appears
imwrite(fs, path, img, ok) == IF ok THEN (path :> img) @@ fs ELSE fs

(***************************************************************************)
(* mask-generator.py                                                       *)
(***************************************************************************)
data_dir == <<"p", "l", "a", "n", "e">>
original_mask_path == <<"m", "a", "s", "k", ".", "p", "n", "g">>
image_folders ==
    << <<"i", "m", "a", "g", "e", "s">>,
       <<"i", "m", "a", "g", "e", "s", "_", "2">>,
       <<"i", "m", "a", "g", "e", "s", "_", "4">>,
       <<"i", "m", "a", "g", "e", "s", "_", "8">> >>

\* os.path.join(data_dir, f"masks_{folder.split('_')[-1] if '_' in folder else ''}")
mask_folder_of(folder) ==
    os_path_join(data_dir,
                 <<"m", "a", "s", "k", "s", "_">>
                   \o (IF rfind(folder, "_") > 0
                       THEN SubSeq(folder, rfind(folder, "_") + 1, Len(folder))
                       ELSE <<>>))

\* a directory entry of an image folder: its name, whether PIL can open
\* it, its size, and whether the mask path of the same name can be written
Entry(name, readable, w, h, wr) ==
    [name |-> name, readable |-> readable, w |-> w, h |-> h, wr |-> wr]

\* the contents an image folder may have, in directory order
DirEmpty == <<>>
DirBroken ==
    << Entry(<<"a", ".", "j", "p", "g">>, TRUE, 2, 1, TRUE),
       Entry(<<"b", ".", "p", "n", "g">>, FALSE, 0, 0, TRUE),
       Entry(<<"c", " ", "d", ".", "j", "p", "e", "g">>, TRUE, 1, 2, TRUE) >>
DirMixed ==
    << Entry(<<"e", " ", "f", ".", "g", ".", "p", "n", "g">>, TRUE, 3, 1, TRUE),
       Entry(<<"g", ".", "J", "P", "G">>, TRUE, 1, 1, TRUE),
       Entry(<<"h", ".", "t", "x", "t">>, FALSE, 0, 0, TRUE),
       Entry(<<".", "i", ".", "j", "p", "g">>, TRUE, 1, 1, TRUE),
       Entry(<<"k", ".", "j", "p", "g">>, TRUE, 2, 2, FALSE) >>
DirListings == {DirEmpty, DirBroken, DirMixed}

\* the source masks of a run: a block of lo at the origin, hi elsewhere
BlockMasks ==
    UNION { UNION { { TwoLevel(h, w, Cells(h, w) \ Cells(bh, bw), lv[1], lv[2]) :
                        bh \in 0 .. h, bw \in 0 .. w, lv \in LevelPairs } :
                    w \in 1 .. MaxDim } :
            h \in 1 .. MaxDim }

\* os.path.exists(path) that never finds the directory
os_path_exists_never(dirs, path) == FALSE

\* os.path.exists(path) for a directory path; dirs is the set of the
\* directories there are
os_path_exists(dirs, path) == path \in dirs

\* os.makedirs(path) without exist_ok: FileExistsError when path is there
os_makedirs(dirs, path) ==
    IF path \in dirs
    THEN [dirs |-> dirs, raised |-> TRUE]
    ELSE [dirs |-> dirs \cup {path}, raised |-> FALSE]

\* glob.glob(os.path.join(folder_path, pattern)) for pattern "*" + ext:
\* the paths of the entries whose name ends with ext, compared as written,
\* and does not start with a dot
RECURSIVE glob(_, _, _)
glob(folder_path, listing, ext) ==
    IF listing = <<>> THEN <<>>
    ELSE LET e == Head(listing)
             rest == glob(folder_path, Tail(listing), ext)
         IN IF endswith(e.name, ext) /\ e.name[1] # "."
            THEN <<os_path_join(folder_path, e.name)>> \o rest
            ELSE rest

EXT_JPG == <<".", "j", "p", "g">>
EXT_PNG == <<".", "p", "n", "g">>
EXT_JPEG == <<".", "j", "p", "e", "g">>

\* the entry of listing at path
entry_at(folder_path, listing, path) ==
    CHOOSE e \in { listing[k] : k \in 1 .. Len(listing) } :
        os_path_join(folder_path, e.name) = path

GenInit ==
    /\ rs = [pc |-> "idle"] /\ mf = [pc |-> "idle"] /\ cz = [pc |-> "idle"]
    /\ dbg = [pc |-> "idle"]
    /\ \E readable \in BOOLEAN, m \in BlockMasks, dirs_exist \in BOOLEAN,
          listing \in [1 .. Len(image_folders) -> DirListings] :
        gen = [pc |-> "tier", t |-> 1, i |-> 1,
               src_readable |-> readable,
               src_mask |-> IF readable THEN m ELSE NoArray,
               listing |-> listing,
               dirs |-> IF dirs_exist
                        THEN { mask_folder_of(image_folders[k]) :
                                 k \in 1 .. Len(image_folders) }
                        ELSE {},
               files |-> <<>>,
               run |-> 1,
               first_files |-> <<>>,
               image_files |-> <<>>,
               original_mask |-> NoArray,
               processed |-> <<>>,
               printed |-> <<>>,
               err |-> "none"]

\* the tier loop up to the image loop: the mask folder, the glob, the
\* source mask
gen_tier ==
    /\ gen.pc = "tier"
    /\ gen.t <= Len(image_folders)
    /\ LET folder == image_folders[gen.t]
           mask_folder == mask_folder_of(folder)
           image_folder_path == os_path_join(data_dir, folder)
           image_files == glob(image_folder_path, gen.listing[gen.t], EXT_JPG)
                            \o glob(image_folder_path, gen.listing[gen.t], EXT_PNG)
                            \o glob(image_folder_path, gen.listing[gen.t], EXT_JPEG)
           made == IF ~os_path_exists(gen.dirs, mask_folder)
                   THEN os_makedirs(gen.dirs, mask_folder)
                   ELSE [dirs |-> gen.dirs, raised |-> FALSE]
       IN gen' = IF made.raised
                 THEN [gen EXCEPT !.pc = "crashed",
                                  !.err = "FileExistsError"]
                 ELSE IF gen.src_readable
                 THEN [gen EXCEPT !.dirs = made.dirs,
                                  !.image_files = image_files,
                                  !.original_mask = gen.src_mask,
                                  !.i = 1,
                                  !.pc = "image"]
                 ELSE [gen EXCEPT !.dirs = made.dirs,
                                  !.image_files = image_files,
                                  !.pc = "crashed",
                                  !.err = "FileNotFoundError"]
    /\ UNCHANGED <<rs, mf, cz, dbg>>

\* one pass of the image loop
gen_image ==
    /\ gen.pc = "image"
    /\ gen.i <= Len(gen.image_files)
    /\ LET folder == image_folders[gen.t]
           mask_folder == mask_folder_of(folder)
           img_path == gen.image_files[gen.i]
           img_filename == os_path_basename(img_path)
           target_img == entry_at(os_path_join(data_dir, folder),
                                  gen.listing[gen.t], img_path)
       IN IF ~target_img.readable
          THEN gen' = [gen EXCEPT !.pc = "crashed",
                                  !.err = "UnidentifiedImageError"]
          ELSE LET target_size == <<target_img.w, target_img.h>>
                   resized_mask == resize(gen.original_mask,
                                          target_size[1], target_size[2])
                   mask_save_path == os_path_join(mask_folder, img_filename)
               IN gen' = [gen EXCEPT
                            !.files = imwrite(@, mask_save_path, resized_mask,
                                              target_img.wr),
                            !.processed = Append(@, [t |-> gen.t,
                                                     img_path |-> img_path]),
                            !.printed = Append(@, mask_save_path),
                            !.i = @ + 1]
    /\ UNCHANGED <<rs, mf, cz, dbg>>

\* the image loop is exhausted: the next tier
gen_next_tier ==
    /\ gen.pc = "image"
    /\ gen.i > Len(gen.image_files)
    /\ gen' = [gen EXCEPT !.pc = "tier", !.t = @ + 1]
    /\ UNCHANGED <<rs, mf, cz, dbg>>

\* the tier loop is exhausted: print("All masks created successfully!")
gen_done ==
    /\ gen.pc = "tier"
    /\ gen.t > Len(image_folders)
    /\ gen' = [gen EXCEPT !.pc = "done"]
    /\ UNCHANGED <<rs, mf, cz, dbg>>

\* the script is started again over the directories and files the run
\* before left: gen.first_files keeps the mask files the first run left
gen_rerun ==
    /\ gen.pc \in {"done", "crashed"}
    /\ gen.run < MaxRuns
    /\ gen' = [gen EXCEPT !.pc = "tier", !.t = 1, !.i = 1,
                          !.run = @ + 1,
                          !.first_files = IF gen.run = 1 THEN gen.files ELSE @,
                          !.image_files = <<>>,
                          !.original_mask = NoArray,
                          !.processed = <<>>,
                          !.printed = <<>>,
                          !.err = "none"]
    /\ UNCHANGED <<rs, mf, cz, dbg>>

GenNext == gen_tier \/ gen_image \/ gen_next_tier \/ gen_done \/ gen_rerun

SpecGen == GenInit /\ [][GenNext]_vars

(***************************************************************************)
(* pathlib (PurePosixPath) as add_json_mask_paths.py uses it.  A path is   *)
(* [root, parts]: root is "", "/" or "//" as a tuple of characters, parts  *)
(* the components in order.                                                *)
(***************************************************************************)
\* s.split("/")
RECURSIVE split_sep(_)
split_sep(s) ==
    LET hits == { i \in 1 .. Len(s) : s[i] = "/" }
    IN IF hits = {} THEN <<s>>
       ELSE LET i == CHOOSE k \in hits : \A j \in hits : k <= j
            IN <<SubSeq(s, 1, i - 1)>> \o split_sep(SubSeq(s, i + 1, Len(s)))

\* Path(s): empty and "." components are dropped; one leading separator,
\* or three and more, make the root "/", exactly two make "//"
Path(s) ==
    LET root == IF Len(s) >= 1 /\ s[1] = "/"
                THEN IF Len(s) >= 2 /\ s[2] = "/" /\ ~(Len(s) >= 3 /\ s[3] = "/")
                     THEN <<"/", "/">>
                     ELSE <<"/">>
                ELSE <<>>
    IN [root |-> root,
        parts |-> SelectSeq(split_sep(s), LAMBDA c : c # <<>> /\ c # <<".">>)]

RECURSIVE join_parts(_)
join_parts(parts) ==
    IF parts = <<>> THEN <<>>
    ELSE IF Len(parts) = 1 THEN parts[1]
    ELSE parts[1] \o <<"/">> \o join_parts(Tail(parts))

\* str(path)
path_str(path) ==
    IF path.root = <<>> /\ path.parts = <<>> THEN <<".">>
    ELSE path.root \o join_parts(path.parts)

\* path.parent
path_parent(path) ==
    IF path.parts = <<>> THEN path
    ELSE [path EXCEPT !.parts = SubSeq(@, 1, Len(@) - 1)]

\* path.name
path_name(path) ==
    IF path.parts = <<>> THEN <<>> ELSE path.parts[Len(path.parts)]

\* the position of the dot that starts the suffix of name, 0 when name has
\* no suffix: i = name.rfind('.'); 0 < i < len(name) - 1
suffix_dot(name) ==
    LET j == rfind(name, ".")
    IN IF 1 < j /\ j < Len(name) THEN j ELSE 0

\* path.suffix taken from the first dot of the name instead of the last
path_suffix_first_dot(path) ==
    LET name == path_name(path)
        hits == { i \in 2 .. Len(name) - 1 : name[i] = "." }
    IN IF hits = {} THEN <<>>
       ELSE SubSeq(name, CHOOSE k \in hits : \A j \in hits : k <= j, Len(name))

\* path.suffix
path_suffix(path) ==
    LET name == path_name(path)
    IN IF suffix_dot(name) = 0 THEN <<>>
       ELSE SubSeq(name, suffix_dot(name), Len(name))

\* path.stem
path_stem(path) ==
    LET name == path_name(path)
    IN IF suffix_dot(name) = 0 THEN name
       ELSE SubSeq(name, 1, suffix_dot(name) - 1)

\* path / other, other a str
path_div(path, other) ==
    LET o == Path(other)
    IN IF o.root # <<>> THEN o
       ELSE [root |-> path.root, parts |-> path.parts \o o.parts]

(***************************************************************************)
(* JSON documents.  A dict is [keys, vals]: keys in insertion order, vals  *)
(* the value of each key; a value is a str.  The manifest is a dict whose  *)
(* key "frames", when present, holds the list `frames` of dicts.           *)
(***************************************************************************)
Range(seq) == { seq[i] : i \in 1 .. Len(seq) }

EmptyDict == [keys |-> <<>>, vals |-> <<>>]

\* d[k] = v done as del d[k]; d[k] = v: the key moves to the end
dict_set_reinsert(d, k, v) ==
    [keys |-> Append(SelectSeq(d.keys, LAMBDA x : x # k), k),
     vals |-> (k :> v) @@ d.vals]

\* d[k] = v: an existing key keeps its place, a new key goes last
dict_set(d, k, v) ==
    IF k \in Range(d.keys)
    THEN [d EXCEPT !.vals = (k :> v) @@ d.vals]
    ELSE [keys |-> Append(d.keys, k), vals |-> (k :> v) @@ d.vals]

Tok(t, k, v) == [t |-> t, k |-> k, v |-> v]

RECURSIVE dump_fields(_, _)
dump_fields(d, keys) ==
    IF keys = <<>> THEN <<>>
    ELSE <<Tok("kv", Head(keys), d.vals[Head(keys)])>> \o dump_fields(d, Tail(keys))

RECURSIVE dump_frames(_)
dump_frames(frames) ==
    IF frames = <<>> THEN <<>>
    ELSE <<Tok("{", "", <<>>)>> \o dump_fields(Head(frames), Head(frames).keys)
           \o <<Tok("}", "", <<>>)>> \o dump_frames(Tail(frames))

RECURSIVE dump_top(_, _)
dump_top(doc, keys) ==
    IF keys = <<>> THEN <<>>
    ELSE (IF Head(keys) = "frames"
          THEN <<Tok("[", "frames", <<>>)>> \o dump_frames(doc.frames)
                 \o <<Tok("]", "", <<>>)>>
          ELSE <<Tok("kv", Head(keys), doc.vals[Head(keys)])>>)
         \o dump_top(doc, Tail(keys))

\* json.dump(transforms_data, f, indent=2): the text of the document, as
\* the chunks the encoder hands to f.write in order
json_dump(doc) ==
    <<Tok("{", "", <<>>)>> \o dump_top(doc, doc.keys) \o <<Tok("}", "", <<>>)>>

\* one token read by the decoder in state st
load_step(st, tok) ==
    CASE st.at = "start" ->
           IF tok.t = "{" THEN [st EXCEPT !.at = "top"] ELSE [st EXCEPT !.at = "bad"]
      [] st.at = "top" ->
           IF tok.t = "kv"
           THEN [st EXCEPT !.doc = [@ EXCEPT
                     !.keys = dict_set([keys |-> st.doc.keys, vals |-> st.doc.vals],
                                       tok.k, tok.v).keys,
                     !.vals = (tok.k :> tok.v) @@ @]]
           ELSE IF tok.t = "[" /\ "frames" \notin Range(st.doc.keys)
           THEN [st EXCEPT !.at = "frames", !.doc.keys = Append(@, "frames")]
           ELSE IF tok.t = "}" THEN [st EXCEPT !.at = "end"]
           ELSE [st EXCEPT !.at = "bad"]
      [] st.at = "frames" ->
           IF tok.t = "{" THEN [st EXCEPT !.at = "frame", !.cur = EmptyDict]
           ELSE IF tok.t = "]" THEN [st EXCEPT !.at = "top"]
           ELSE [st EXCEPT !.at = "bad"]
      [] st.at = "frame" ->
           IF tok.t = "kv" THEN [st EXCEPT !.cur = dict_set(@, tok.k, tok.v)]
           ELSE IF tok.t = "}"
           THEN [st EXCEPT !.at = "frames", !.doc.frames = Append(@, st.cur)]
           ELSE [st EXCEPT !.at = "bad"]
      [] OTHER -> [st EXCEPT !.at = "bad"]

RECURSIVE load_from(_, _)
load_from(st, toks) ==
    IF toks = <<>> THEN st ELSE load_from(load_step(st, Head(toks)), Tail(toks))

\* json.load(f): [ok, doc]; ok is FALSE where json.load raises
\* JSONDecodeError
json_load(toks) ==
    LET st == load_from([at |-> "start",
                         doc |-> [keys |-> <<>>, vals |-> <<>>, frames |-> <<>>],
                         cur |-> EmptyDict], toks)
    IN [ok |-> st.at = "end", doc |-> st.doc]

(***************************************************************************)
(* add_json_mask_paths.py                                                  *)
(***************************************************************************)
\* transforms_data.get('frames', [])
get_frames(transforms_data) ==
    IF "frames" \in Range(transforms_data.keys) THEN transforms_data.frames ELSE <<>>

\* the mask_path the loop body computes from file_path
derive_mask_path(file_path, mask_dir, mask_suffix) ==
    LET path_obj == Path(file_path)
        parent_dir == path_parent(path_obj)
        filename == path_stem(path_obj)
        extension == path_suffix(path_obj)
    IN path_str(path_div(path_div(parent_dir, mask_dir),
                         filename \o mask_suffix \o extension))

\* the loop body on one frame
update_frame(frame, mask_dir, mask_suffix) ==
    IF "file_path" \in Range(frame.keys)
    THEN dict_set(frame, "mask_path",
                  derive_mask_path(frame.vals["file_path"], mask_dir, mask_suffix))
    ELSE frame

\* transforms_data after the loop over transforms_data.get('frames', [])
add_mask_paths(transforms_data, mask_dir, mask_suffix) ==
    IF "frames" \in Range(transforms_data.keys)
    THEN [transforms_data EXCEPT !.frames =
            [i \in 1 .. Len(get_frames(transforms_data)) |->
               update_frame(get_frames(transforms_data)[i], mask_dir, mask_suffix)]]
    ELSE transforms_data

\* a file: whether it exists and the chunks of text it holds
File(exists, data) == [exists |-> exists, data |-> data]
NoFile == File(FALSE, <<>>)

\* the state at the call add_mask_paths_to_transforms(args.input,
\* output_file, args.mask_dir, args.mask_suffix):
\*   fs           the files at the input path ("in") and at another output
\*                path ("out")
\*   output_file  "in" when --output is not given, "out" otherwise
\*   dest0        the file at output_file before the call
\*   input_data   the document as json.load returned it (loaded: it did)
\*   pending      the chunks json.dump has still to write
\*   printed      the frame count the report prints
MfStart(input, out0, output_file, mask_dir, mask_suffix) ==
    [pc |-> "load",
     fs |-> [n \in {"in", "out"} |-> IF n = "in" THEN input ELSE out0],
     output_file |-> output_file,
     dest0 |-> IF output_file = "in" THEN input ELSE out0,
     mask_dir |-> mask_dir, mask_suffix |-> mask_suffix,
     input_data |-> [keys |-> <<>>, vals |-> <<>>, frames |-> <<>>],
     transforms_data |-> [keys |-> <<>>, vals |-> <<>>, frames |-> <<>>],
     loaded |-> FALSE,
     pending |-> <<>>,
     printed |-> -1,
     err |-> "none"]

\* with open(input_file, 'r') as f: transforms_data = json.load(f)
mf_load ==
    /\ mf.pc = "load"
    /\ LET f == mf.fs["in"]
           loaded == json_load(f.data)
       IN mf' = IF ~f.exists
                THEN [mf EXCEPT !.pc = "raised", !.err = "FileNotFoundError"]
                ELSE IF ~loaded.ok
                THEN [mf EXCEPT !.pc = "raised", !.err = "JSONDecodeError"]
                ELSE [mf EXCEPT !.pc = "loop", !.loaded = TRUE,
                                !.input_data = loaded.doc,
                                !.transforms_data = loaded.doc]
    /\ UNCHANGED <<rs, gen, cz, dbg>>

\* the loop raising KeyError when the document has no 'frames' key, as
\* transforms_data['frames'] would
mf_loop_strict ==
    /\ mf.pc = "loop"
    /\ mf' = IF "frames" \in Range(mf.transforms_data.keys)
             THEN [mf EXCEPT !.pc = "open",
                             !.transforms_data =
                                 add_mask_paths(@, mf.mask_dir, mf.mask_suffix)]
             ELSE [mf EXCEPT !.pc = "raised", !.err = "KeyError"]
    /\ UNCHANGED <<rs, gen, cz, dbg>>

\* for frame in transforms_data.get('frames', []): ...
mf_loop ==
    /\ mf.pc = "loop"
    /\ mf' = [mf EXCEPT !.pc = "open",
                        !.transforms_data =
                            add_mask_paths(@, mf.mask_dir, mf.mask_suffix)]
    /\ UNCHANGED <<rs, gen, cz, dbg>>

\* open(output_file, 'w'): the file is created or truncated; json.dump
\* then has the whole text to write
mf_open_write ==
    /\ mf.pc = "open"
    /\ mf' = [mf EXCEPT !.pc = "dump",
                        !.fs[mf.output_file] = File(TRUE, <<>>),
                        !.pending = json_dump(mf.transforms_data)]
    /\ UNCHANGED <<rs, gen, cz, dbg>>

\* json.dump: the next chunk reaches the file
mf_write_chunk ==
    /\ mf.pc = "dump"
    /\ mf.pending # <<>>
    /\ mf' = [mf EXCEPT !.fs[mf.output_file].data = Append(@, Head(mf.pending)),
                        !.pending = Tail(@)]
    /\ UNCHANGED <<rs, gen, cz, dbg>>

\* the with block ends: the file is closed
mf_close ==
    /\ mf.pc = "dump"
    /\ mf.pending = <<>>
    /\ mf' = [mf EXCEPT !.pc = "report"]
    /\ UNCHANGED <<rs, gen, cz, dbg>>

\* the prints after the write: the frame count and the first frame
mf_report ==
    /\ mf.pc = "report"
    /\ mf' = [mf EXCEPT !.pc = "done",
                        !.printed = Len(get_frames(mf.transforms_data))]
    /\ UNCHANGED <<rs, gen, cz, dbg>>

\* the process is killed (or the machine stops) before it has finished
mf_killed ==
    /\ mf.pc \in {"load", "loop", "open", "dump", "report"}
    /\ mf' = [mf EXCEPT !.pc = "killed"]
    /\ UNCHANGED <<rs, gen, cz, dbg>>

MfNext ==
    \/ mf_load \/ mf_loop \/ mf_open_write \/ mf_write_chunk \/ mf_close
    \/ mf_report \/ mf_killed

\* the characters of the file paths
PathChars == {"a", "J", ".", "/"}

\* every str of length n over PathChars
StrOfLen(n) == [1 .. n -> PathChars]

\* the (mask_dir, mask_suffix) arguments: the defaults "mask", "_mask" and
\* "m", "-msk"
MaskArgs ==
    { << <<"m", "a", "s", "k">>, <<"_", "m", "a", "s", "k">> >>,
      << <<"m">>, <<"-", "m", "s", "k">> >> }

\* the mask_path a frame may hold before the run
OldMaskPath == <<"o", "l", "d">>

\* a manifest of one frame, its file_path any str up to MaxPathLen, with
\* or without a mask_path from an earlier run
PathInit ==
    /\ rs = [pc |-> "idle"] /\ gen = [pc |-> "idle"] /\ cz = [pc |-> "idle"]
    /\ dbg = [pc |-> "idle"]
    /\ \E n \in 0 .. MaxPathLen, args \in MaskArgs, prev \in BOOLEAN :
         \E file_path \in StrOfLen(n) :
            mf = MfStart(
                   File(TRUE, json_dump(
                     [keys |-> <<"frames">>, vals |-> <<>>,
                      frames |-> << IF prev
                                    THEN [keys |-> <<"mask_path", "file_path">>,
                                          vals |-> ("file_path" :> file_path
                                                    @@ "mask_path" :> OldMaskPath)]
                                    ELSE [keys |-> <<"file_path">>,
                                          vals |-> ("file_path" :> file_path)] >>])),
                   NoFile, "in", args[1], args[2])

SpecPath == PathInit /\ [][MfNext]_vars

\* the frames a manifest may hold: with and without file_path, with and
\* without a mask_path from an earlier run, with other fields around them
FrameShapes ==
    { [keys |-> <<"file_path">>,
       vals |-> ("file_path" :> <<"i", "/", "s", ".", "J">>)],
      [keys |-> <<"t", "mask_path", "file_path", "z">>,
       vals |-> ("t" :> <<"1">> @@ "mask_path" :> OldMaskPath
                 @@ "file_path" :> <<".", "/", "i", "/", "a", ".", "b", ".", "J">>
                 @@ "z" :> <<"2">>)],
      [keys |-> <<"t">>, vals |-> ("t" :> <<"3">>)],
      [keys |-> <<"mask_path", "t">>,
       vals |-> ("mask_path" :> OldMaskPath @@ "t" :> <<"4">>)] }

\* the manifests: a 'frames' list of up to MaxFrames frames between two
\* other top-level fields, and two documents without the 'frames' key
Manifests ==
    UNION { { [keys |-> <<"c", "frames", "z">>,
               vals |-> ("c" :> <<"x">> @@ "z" :> <<"y">>),
               frames |-> frames] : frames \in [1 .. n -> FrameShapes] } :
            n \in 0 .. MaxFrames }
      \cup { [keys |-> <<"c", "z">>,
              vals |-> ("c" :> <<"x">> @@ "z" :> <<"y">>), frames |-> <<>>],
             [keys |-> <<>>, vals |-> <<>>, frames |-> <<>>] }

\* the files the input path may hold: a manifest, text that is not JSON,
\* or nothing
InputFiles ==
    { File(TRUE, json_dump(doc)) : doc \in Manifests }
      \cup { File(TRUE, <<Tok("{", "", <<>>), Tok("[", "frames", <<>>)>>), NoFile }

\* the output configurations: in place; another path holding nothing; or
\* another path holding an older manifest
ManifestInit ==
    /\ rs = [pc |-> "idle"] /\ gen = [pc |-> "idle"] /\ cz = [pc |-> "idle"]
    /\ dbg = [pc |-> "idle"]
    /\ \E input \in InputFiles, args \in MaskArgs,
          out \in { <<"in", NoFile>>, <<"out", NoFile>>,
                    <<"out", File(TRUE, json_dump(
                                [keys |-> <<"c">>, vals |-> ("c" :> <<"w">>),
                                 frames |-> <<>>]))>> } :
         mf = MfStart(input, out[2], out[1], args[1], args[2])

SpecManifest == ManifestInit /\ [][MfNext]_vars

(***************************************************************************)
(* apply_mask_colorize.py                                                  *)
(* A colour image is an array whose pixels are <<B, G, R>> triples.        *)
(***************************************************************************)
\* cv2.bitwise_not left out: the mask is used as thresholded
bitwise_not_skipped(src) == src

\* cv2.bitwise_not(src) on uint8
bitwise_not(src) == [src EXCEPT !.px = [p \in DOMAIN src.px |-> 255 - src.px[p]]]

\* the locals of apply_mask_and_colorize at its return, for a decoded
\* image and mask: `image` as it is then, and `result`
colorize_arrays(image, mask0, color) ==
    LET mask == IF <<mask0.h, mask0.w>> # <<image.h, image.w>>
                THEN resize(mask0, image.w, image.h)
                ELSE mask0
        binary_mask == threshold(mask, 127, 255)
        inverted_mask == bitwise_not(binary_mask)
        colored_region == [image EXCEPT !.px = [p \in DOMAIN image.px |-> color]]
        result == [image EXCEPT !.px =
                     [p \in DOMAIN image.px |->
                        IF inverted_mask.px[p] = 255
                        THEN colored_region.px[p] ELSE image.px[p]]]
    IN [image |-> image, result |-> result]

\* apply_mask_and_colorize(image_path, mask_path, output_path, color):
\* [raised, image, result, out]; f is the file at image_path, m the file
\* at mask_path, out the files of the output folder after the call
apply_mask_and_colorize(f, m, output_path, color, out) ==
    IF ~f.readable \/ ~m.readable
    THEN [raised |-> TRUE, image |-> NoArray, result |-> NoArray, out |-> out]
    ELSE LET a == colorize_arrays(f.image, m.mask, color)
         IN [raised |-> FALSE, image |-> a.image, result |-> a.result,
             out |-> imwrite(out, output_path, a.result, f.wr)]

\* c.lower() for the characters of the file names
char_lower(c) ==
    CASE c = "J" -> "j" [] c = "P" -> "p" [] c = "G" -> "g" [] c = "N" -> "n"
      [] OTHER -> c

\* s.lower()
str_lower(s) == [i \in 1 .. Len(s) |-> char_lower(s[i])]

\* os.path.splitext(p)[1]: from the last dot, when the dot follows the
\* last separator and a character other than a dot lies between them
splitext_ext(p) ==
    LET d == rfind(p, ".")
        sp == rfind(p, "/")
    IN IF d > sp /\ (\E i \in sp + 1 .. d - 1 : p[i] # ".")
       THEN SubSeq(p, d, Len(p)) ELSE <<>>

img_extensions ==
    << <<".", "j", "p", "g">>, <<".", "j", "p", "e", "g">>, <<".", "p", "n", "g">>,
       <<".", "b", "m", "p">>, <<".", "t", "i", "f">>, <<".", "t", "i", "f", "f">> >>

input_folder == <<"i", "n">>
output_folder == <<"o", "u", "t">>

\* the image of h rows and w columns whose pixels all differ
ImageOf(h, w) ==
    [h |-> h, w |-> w,
     px |-> [p \in Cells(h, w) |-> <<10 * p[1] + p[2], 100 + p[1], 200 + p[2]>>]]

\* a file of the input folder: its name, whether cv2.imread decodes it,
\* the image it holds, and whether the output of the same name can be
\* written
ImgFile(name, readable, image, wr) ==
    [name |-> name, readable |-> readable, image |-> image, wr |-> wr]

\* a mask file
MaskFile(readable, mask) == [readable |-> readable, mask |-> mask]

Colors == {<<0, 0, 255>>, <<255, 128, 0>>}

\* the state at the call process_folder(input_folder, mask_path,
\* output_folder, color):
\*   listing  os.listdir(input_folder), in its order; listable is whether
\*            the folder can be listed
\*   out      the files of output_folder, by path
\*   failed   the file names the except branch reported
\*   last     what the last apply_mask_and_colorize call returned
CzStart(listable, listing, mask_file, color) ==
    [pc |-> "call", listable |-> listable, listing |-> listing,
     mask_file |-> mask_file, color |-> color,
     i |-> 1, processed_count |-> 0, out_dir |-> FALSE, out |-> <<>>,
     failed |-> <<>>, visited |-> <<>>,
     last |-> [raised |-> FALSE, image |-> NoArray, result |-> NoArray],
     ret |-> -1, err |-> "none"]

\* process_folder up to its loop: os.makedirs(output_folder), then
\* os.listdir(input_folder)
cz_enter ==
    /\ cz.pc = "call"
    /\ cz' = IF cz.listable
             THEN [cz EXCEPT !.pc = "loop", !.out_dir = TRUE]
             ELSE [cz EXCEPT !.pc = "raised", !.out_dir = TRUE,
                             !.err = "FileNotFoundError"]
    /\ UNCHANGED <<rs, gen, mf, dbg>>

\* one pass of the loop over os.listdir(input_folder)
cz_file ==
    /\ cz.pc = "loop"
    /\ cz.i <= Len(cz.listing)
    /\ LET f == cz.listing[cz.i]
           filename == f.name
           ext == splitext_ext(filename)
       IN IF str_lower(ext) \in Range(img_extensions)
          THEN LET input_path == os_path_join(input_folder, filename)
                   output_path == os_path_join(output_folder, filename)
                   r == apply_mask_and_colorize(f, cz.mask_file, output_path,
                                                cz.color, cz.out)
               IN cz' = IF r.raised
                        THEN [cz EXCEPT !.i = @ + 1,
                                        !.visited = Append(@, filename),
                                        !.failed = Append(@, filename),
                                        !.last = [raised |-> TRUE,
                                                  image |-> r.image,
                                                  result |-> r.result]]
                        ELSE [cz EXCEPT !.i = @ + 1,
                                        !.visited = Append(@, filename),
                                        !.out = r.out,
                                        !.processed_count = @ + 1,
                                        !.last = [raised |-> FALSE,
                                                  image |-> r.image,
                                                  result |-> r.result]]
          ELSE cz' = [cz EXCEPT !.i = @ + 1]
    /\ UNCHANGED <<rs, gen, mf, dbg>>

\* return processed_count
cz_return ==
    /\ cz.pc = "loop"
    /\ cz.i > Len(cz.listing)
    /\ cz' = [cz EXCEPT !.pc = "returned", !.ret = cz.processed_count]
    /\ UNCHANGED <<rs, gen, mf, dbg>>

\* main: the count line, or except Exception as e: print(...)
cz_main_report ==
    /\ cz.pc \in {"returned", "raised"}
    /\ cz' = [cz EXCEPT !.pc = "exit"]
    /\ UNCHANGED <<rs, gen, mf, dbg>>

CzNext == cz_enter \/ cz_file \/ cz_return \/ cz_main_report

\* one image of any shape up to MaxDim x MaxDim under any mask
ColorizeInit ==
    /\ rs = [pc |-> "idle"] /\ gen = [pc |-> "idle"] /\ mf = [pc |-> "idle"]
    /\ dbg = [pc |-> "idle"]
    /\ \E h \in 1 .. MaxDim, w \in 1 .. MaxDim, m \in Masks, color \in Colors :
         cz = CzStart(TRUE,
                      <<ImgFile(<<"a", ".", "j", "p", "g">>, TRUE, ImageOf(h, w), TRUE)>>,
                      MaskFile(TRUE, m), color)

SpecColorize == ColorizeInit /\ [][CzNext]_vars

\* the files a folder may hold: an image whose output can be written, one
\* whose output cannot, a file that does not decode, and names whose
\* extension is not accepted
FolderFiles ==
    { ImgFile(<<"a", ".", "j", "p", "g">>, TRUE, ImageOf(1, 1), TRUE),
      ImgFile(<<"b", ".", "P", "N", "G">>, TRUE, ImageOf(1, 2), FALSE),
      ImgFile(<<"c", ".", "p", "n", "g">>, FALSE, NoArray, TRUE),
      ImgFile(<<"d", ".", "t", "x", "t">>, TRUE, NoArray, TRUE),
      ImgFile(<<".", "j", "p", "g">>, TRUE, ImageOf(1, 1), TRUE) }

\* the listings of up to MaxFiles files, no name twice
FolderListings ==
    UNION { { l \in [1 .. n -> FolderFiles] :
                \A i, j \in 1 .. n : i # j => l[i] # l[j] } :
            n \in 0 .. MaxFiles }

FolderInit ==
    /\ rs = [pc |-> "idle"] /\ gen = [pc |-> "idle"] /\ mf = [pc |-> "idle"]
    /\ dbg = [pc |-> "idle"]
    /\ \E listable \in BOOLEAN, listing \in FolderListings,
          mask_readable \in BOOLEAN, color \in Colors :
         cz = CzStart(listable, IF listable THEN listing ELSE <<>>,
                      MaskFile(mask_readable,
                               IF mask_readable
                               THEN TwoLevel(1, 1, {}, 0, 255) ELSE NoArray),
                      color)

SpecFolder == FolderInit /\ [][CzNext]_vars

(***************************************************************************)
(* pil_to_numpy_debug.py                                                   *)
(*   dbg.fs             the files, by path: [kind, title, image]           *)
(*   dbg.mask_file      the file at mask_file_path when the script starts  *)
(*   dbg.raw            the array the raw encoder of pil_to_numpy delivers *)
(*   dbg.std_numpy, dbg.custom_numpy  the two decode results               *)
(*   dbg.diff_count, dbg.bool_diff_count, dbg.thresh_diff_count            *)
(*                      the counts test_mask_conversion prints             *)
(***************************************************************************)
FileOf(kind, title, image) == [kind |-> kind, title |-> title, image |-> image]

output_dir ==
    <<"m", "a", "s", "k", "_", "d", "e", "b", "u", "g", "_",
      "o", "u", "t", "p", "u", "t">>
output_path ==
    os_path_join(output_dir,
                 <<"m", "a", "s", "k", "_", "c", "o", "n", "v", "e", "r", "s", "i",
                   "o", "n", "_", "a", "n", "a", "l", "y", "s", "i", "s", ".", "p",
                   "n", "g">>)
std_plot_path ==
    os_path_join(output_dir,
                 <<"s", "t", "d", "_", "n", "u", "m", "p", "y", ".", "p", "n", "g">>)
custom_plot_path ==
    os_path_join(output_dir,
                 <<"c", "u", "s", "t", "o", "m", "_", "n", "u", "m", "p", "y", ".",
                   "p", "n", "g">>)

\* for threshold in [0, 1, 127, 128, 254, 255]
thresholds == <<0, 1, 127, 128, 254, 255>>

\* a != b compared on the low seven bits only
array_ne_low_bits(a, b) ==
    { p \in DOMAIN a.px : a.px[p] % 128 # b.px[p] % 128 }

\* a != b for arrays of one shape: the cells where it is True
array_ne(a, b) == { p \in DOMAIN a.px : a.px[p] # b.px[p] }

\* np.sum / torch.sum of a boolean array given by its True cells
np_sum(cells) == Cardinality(cells)

\* torch.from_numpy(a).bool(): 1 where a is not 0
to_bool(a) == [a EXCEPT !.px = [p \in DOMAIN a.px |-> IF a.px[p] # 0 THEN 1 ELSE 0]]

\* (a > threshold).astype(np.uint8)
above(a, thresh) ==
    [a EXCEPT !.px = [p \in DOMAIN a.px |-> IF a.px[p] > thresh THEN 1 ELSE 0]]

\* if diff_count > 0 taken whatever the count
has_differences_always(diff_count) == TRUE

\* if diff_count > 0: the plots are made
has_differences(diff_count) == diff_count > 0

\* the gray-level pairs of the decoded masks: around each threshold
DecodeLevels == {<<0, 255>>, <<1, 254>>, <<127, 128>>}

\* the arrays of h rows and w columns a decode delivers
DecodeArrays(h, w) ==
    { TwoLevel(h, w, Cells(h, w) \ Cells(bh, bw), lv[1], lv[2]) :
        bh \in 0 .. h, bw \in 0 .. w, lv \in DecodeLevels }

\* the paths the script may be given
MaskPaths == {original_mask_path, std_plot_path}

\* python pil_to_numpy_debug.py mask_file_path: the file is there or not,
\* is an image or not; the raw encoder delivers any array of its shape
DebugInit ==
    /\ rs = [pc |-> "idle"] /\ gen = [pc |-> "idle"]
    /\ mf = [pc |-> "idle"] /\ cz = [pc |-> "idle"]
    /\ \E path \in MaskPaths, exists \in BOOLEAN, readable \in BOOLEAN,
          h \in 1 .. MaxDim, w \in 1 .. MaxDim :
        \E a \in DecodeArrays(h, w), b \in DecodeArrays(h, w) :
          LET file == IF readable THEN FileOf("image", <<>>, a)
                      ELSE FileOf("other", <<>>, NoArray)
          IN dbg = [pc |-> "main",
                    mask_file_path |-> path,
                    mask_file |-> IF exists THEN file
                                  ELSE FileOf("none", <<>>, NoArray),
                    fs |-> IF exists THEN path :> file ELSE <<>>,
                    raw |-> IF exists /\ readable THEN b ELSE NoArray,
                    dirs |-> {},
                    std_numpy |-> NoArray, custom_numpy |-> NoArray,
                    diff_count |-> -1, bool_diff_count |-> -1,
                    thresh_diff_count |-> <<>>,
                    err |-> "none"]

\* __main__: the file must exist; then test_mask_conversion up to the two
\* decodes, Image.open raising on a file that is no image
dbg_decode ==
    /\ dbg.pc = "main"
    /\ dbg' = IF dbg.mask_file_path \notin DOMAIN dbg.fs
              THEN [dbg EXCEPT !.pc = "exit", !.err = "not found"]
              ELSE IF dbg.fs[dbg.mask_file_path].kind # "image"
              THEN [dbg EXCEPT !.pc = "raised", !.err = "UnidentifiedImageError"]
              ELSE [dbg EXCEPT !.pc = "decoded",
                               !.std_numpy = dbg.fs[dbg.mask_file_path].image,
                               !.custom_numpy = dbg.raw]
    /\ UNCHANGED <<rs, gen, mf, cz>>

\* test_mask_conversion: the pixel, boolean and threshold differences
dbg_compare ==
    /\ dbg.pc = "decoded"
    /\ LET std_numpy == dbg.std_numpy
           custom_numpy == dbg.custom_numpy
           diff == array_ne(std_numpy, custom_numpy)
           std_bool == to_bool(std_numpy)
           custom_bool == to_bool(custom_numpy)
           bool_diff == array_ne(std_bool, custom_bool)
       IN dbg' = [dbg EXCEPT
                    !.pc = "compared",
                    !.diff_count = np_sum(diff),
                    !.bool_diff_count = np_sum(bool_diff),
                    !.thresh_diff_count =
                        [k \in 1 .. Len(thresholds) |->
                           np_sum(array_ne(above(std_numpy, thresholds[k]),
                                           above(custom_numpy, thresholds[k])))]]
    /\ UNCHANGED <<rs, gen, mf, cz>>

\* test_mask_conversion: the plots, saved when there are differences
dbg_visualize ==
    /\ dbg.pc = "compared"
    /\ dbg' = IF has_differences(dbg.diff_count)
              THEN [dbg EXCEPT
                      !.pc = "done",
                      !.dirs = @ \cup {output_dir},
                      !.fs = (output_path :> FileOf("plot", <<"a">>, NoArray))
                             @@ (std_plot_path :> FileOf("plot", <<"s">>, dbg.std_numpy))
                             @@ (custom_plot_path
                                   :> FileOf("plot", <<"c">>, dbg.custom_numpy))
                             @@ @]
              ELSE [dbg EXCEPT !.pc = "done"]
    /\ UNCHANGED <<rs, gen, mf, cz>>

DebugNext == dbg_decode \/ dbg_compare \/ dbg_visualize

SpecDebug == DebugInit /\ [][DebugNext]_vars

(***************************************************************************)
(* C1                                                                      *)
(***************************************************************************)
Binary(a) == PixelValues(a) \subseteq {0, 255}

\* C1: whenever resize_binary_mask_cv2 has returned, the array it returned
\* is non-empty, every pixel of it is 0 or 255, and the file at output_path,
\* when cv2.imwrite could write it, holds that same array.
C1_BinaryClosure ==
    (rs.pc = "returned" \/ (rs.pc = "exit" /\ rs.printed = "success"))
        => /\ DOMAIN rs.ret.px # {}
           /\ Binary(rs.ret)
           /\ Binary(rs.out_file)
           /\ rs.writable => rs.out_file = rs.ret

\* C1 witness: a mask holding the intermediate grays 64 and 190 has been
\* resampled to a different size
C1_Witness ==
    /\ rs.pc = "returned"
    /\ rs.out_file = rs.ret
    /\ PixelValues(rs.mask) = {64, 190}
    /\ rs.ret.h # rs.mask.h
    /\ PixelValues(rs.ret) = {0, 255}

(***************************************************************************)
(* C2                                                                      *)
(***************************************************************************)
\* C2: every mask file the per-tier loop of mask-generator.py has written
\* holds only the values 0 and 255.
C2_DerivedMasksBinary ==
    \A path \in DOMAIN gen.files : Binary(gen.files[path])

(***************************************************************************)
(* C7                                                                      *)
(***************************************************************************)
\* the paths glob hands to the image loop of tier t
GlobbedPaths(t) ==
    LET folder_path == os_path_join(data_dir, image_folders[t])
        found == glob(folder_path, gen.listing[t], EXT_JPG)
                   \o glob(folder_path, gen.listing[t], EXT_PNG)
                   \o glob(folder_path, gen.listing[t], EXT_JPEG)
    IN { found[k] : k \in 1 .. Len(found) }

\* C7: a run whose source mask is readable never stops on an exception, and
\* when the run has ended every readable image of every tier whose mask
\* path can be written has its mask file.
C7_UnreadableImageSkipped ==
    gen.src_readable
        => /\ gen.pc # "crashed"
           /\ gen.pc = "done"
                => \A t \in 1 .. Len(image_folders) :
                     \A k \in 1 .. Len(gen.listing[t]) :
                        LET e == gen.listing[t][k]
                            folder == image_folders[t]
                        IN (/\ os_path_join(os_path_join(data_dir, folder), e.name)
                                 \in GlobbedPaths(t)
                            /\ e.readable /\ e.wr)
                           => mask_folder_of(folder) \o <<"/">> \o e.name
                                \in DOMAIN gen.files

(***************************************************************************)
(* C10                                                                     *)
(***************************************************************************)
\* C10: for the k-th image the image loop has processed, the mask path it
\* reported is the tier's mask folder, a separator and the image's own
\* file name, and the file at that path, when cv2.imwrite could write it,
\* has the image's width and height.
C10_FilenamePairing ==
    /\ Len(gen.printed) = Len(gen.processed)
    /\ \A k \in 1 .. Len(gen.processed) :
         LET folder == image_folders[gen.processed[k].t]
             e == entry_at(os_path_join(data_dir, folder),
                           gen.listing[gen.processed[k].t],
                           gen.processed[k].img_path)
             expected == mask_folder_of(folder) \o <<"/">> \o e.name
         IN /\ gen.printed[k] = expected
            /\ e.wr => /\ expected \in DOMAIN gen.files
                       /\ gen.files[expected].w = e.w
                       /\ gen.files[expected].h = e.h
                       /\ DOMAIN gen.files[expected].px = Cells(e.h, e.w)

\* C10 witness: the image "e f.g.png" (a space, several dots; 3 wide, 1
\* high) of the tier images_2 has its mask at plane/masks_2/e f.g.png, cut
\* from a source mask of another shape
C10_Witness ==
    LET path == <<"p", "l", "a", "n", "e", "/", "m", "a", "s", "k", "s", "_",
                  "2", "/", "e", " ", "f", ".", "g", ".", "p", "n", "g">>
    IN /\ path \in DOMAIN gen.files
       /\ gen.files[path].w = 3 /\ gen.files[path].h = 1
       /\ gen.src_mask.h = 2

(***************************************************************************)
(* C3                                                                      *)
(***************************************************************************)
\* file_path read as <parent>/<stem><ext>: the text before the last
\* separator, and the name after it cut at its last dot
TextParent(fp) == SubSeq(fp, 1, rfind(fp, "/") - 1)
TextName(fp) == SubSeq(fp, rfind(fp, "/") + 1, Len(fp))
TextStem(fp) ==
    IF rfind(TextName(fp), ".") = 0 THEN TextName(fp)
    ELSE SubSeq(TextName(fp), 1, rfind(TextName(fp), ".") - 1)
TextExt(fp) ==
    IF rfind(TextName(fp), ".") = 0 THEN <<>>
    ELSE SubSeq(TextName(fp), rfind(TextName(fp), "."), Len(TextName(fp)))

\* file_path has the form <parent>/<stem><ext>: it holds a separator, the
\* stem is not empty, and the extension is empty or a dot followed by at
\* least one character
OfTheForm(fp) ==
    /\ rfind(fp, "/") > 0
    /\ TextStem(fp) # <<>>
    /\ Len(TextExt(fp)) # 1

\* the frame of the one-frame manifest once the loop has run
LoopHasRun == mf.pc \in {"open", "dump", "report", "done"}
FrameBefore == mf.input_data.frames[1]
FrameAfter == mf.transforms_data.frames[1]

\* C3 as claimed: mask_path is the text before the last separator of
\* file_path, then /<mask_dir>/, then <stem><mask_suffix><ext>.
C3_TextualParent ==
    (LoopHasRun /\ OfTheForm(FrameBefore.vals["file_path"]))
        => LET fp == FrameBefore.vals["file_path"]
           IN FrameAfter.vals["mask_path"] =
                TextParent(fp) \o <<"/">> \o mf.mask_dir \o <<"/">>
                  \o TextStem(fp) \o mf.mask_suffix \o TextExt(fp)

\* the text before the last separator with repeated separators and "."
\* components dropped, ready to be followed by a component
NormalParentPrefix(fp) ==
    LET P == Path(TextParent(fp) \o <<"/">>)
    IN IF P.parts = <<>> THEN P.root ELSE path_str(P) \o <<"/">>

\* C3 amended: mask_path is the parent of file_path in normal form (no
\* empty and no "." component), then <mask_dir>/, then
\* <stem><mask_suffix><ext>, whatever mask_path the frame held before.
C3_NormalParent ==
    (LoopHasRun /\ OfTheForm(FrameBefore.vals["file_path"]))
        => LET fp == FrameBefore.vals["file_path"]
           IN FrameAfter.vals["mask_path"] =
                NormalParentPrefix(fp) \o mf.mask_dir \o <<"/">>
                  \o TextStem(fp) \o mf.mask_suffix \o TextExt(fp)

\* C3 witness: a/a.J with the arguments m and -msk, over an old mask_path,
\* has become a/m/a-msk.J
C3_Witness ==
    /\ mf.pc = "done"
    /\ "mask_path" \in Range(FrameBefore.keys)
    /\ FrameBefore.vals["file_path"] = <<"a", "/", "a", ".", "J">>
    /\ FrameAfter.vals["mask_path"] =
         <<"a", "/", "m", "/", "a", "-", "m", "s", "k", ".", "J">>

(***************************************************************************)
(* C4                                                                      *)
(***************************************************************************)
\* C4: at every point of the run the file at output_file is the file that
\* was there before the call, or holds the complete new document.
C4_NoPartialManifest ==
    \/ mf.fs[mf.output_file] = mf.dest0
    \/ /\ mf.pc \in {"dump", "report", "done", "killed"}
       /\ mf.fs[mf.output_file] = File(TRUE, json_dump(mf.transforms_data))

(***************************************************************************)
(* C5                                                                      *)
(***************************************************************************)
\* the input was read and its document has no 'frames' key
LoadedWithoutFrames ==
    mf.loaded /\ "frames" \notin Range(mf.input_data.keys)

\* C5 as claimed: a document without the 'frames' key makes the call
\* fail; the output is never opened and the destination stays as it was.
C5_MissingFramesAborts ==
    LoadedWithoutFrames
        => /\ mf.pc \in {"loop", "raised", "killed"}
           /\ mf.fs[mf.output_file] = mf.dest0

\* C5 amended: a document without the 'frames' key raises nothing; the
\* call runs to its end, reports 0 frames, and the destination then holds
\* the input document with nothing added and nothing removed.
C5_MissingFramesTolerated ==
    LoadedWithoutFrames
        => /\ mf.pc # "raised"
           /\ mf.pc = "done"
                => /\ mf.printed = 0
                   /\ mf.fs[mf.output_file].exists
                   /\ json_load(mf.fs[mf.output_file].data)
                        = [ok |-> TRUE, doc |-> mf.input_data]

\* C5 witness: a manifest holding only the fields c and z was rewritten in
\* place
C5_Witness ==
    /\ mf.pc = "done"
    /\ mf.output_file = "in"
    /\ mf.input_data.keys = <<"c", "z">>

(***************************************************************************)
(* C6                                                                      *)
(***************************************************************************)
\* frame `new` is frame `old` with nothing but mask_path changed: the
\* fields of old keep their order and, mask_path aside, their values; the
\* only field that may be added is mask_path, at the end
OnlyMaskPathChanged(old, new) ==
    /\ new.keys = IF "mask_path" \in Range(old.keys)
                  THEN old.keys ELSE Append(old.keys, "mask_path")
    /\ \A k \in Range(old.keys) \ {"mask_path"} : new.vals[k] = old.vals[k]

\* C6: once the manifest is written, the document in the output file has
\* the top-level fields of the input in the same order with the same
\* values and as many frames; a frame without file_path is the same frame,
\* and a frame with file_path differs in nothing but mask_path.
C6_OnlyMaskPathChanges ==
    mf.pc \in {"report", "done"}
        => LET old == mf.input_data
               new == json_load(mf.fs[mf.output_file].data)
           IN /\ new.ok
              /\ new.doc.keys = old.keys
              /\ new.doc.vals = old.vals
              /\ Len(new.doc.frames) = Len(old.frames)
              /\ \A i \in 1 .. Len(old.frames) :
                   IF "file_path" \in Range(old.frames[i].keys)
                   THEN OnlyMaskPathChanged(old.frames[i], new.doc.frames[i])
                   ELSE new.doc.frames[i] = old.frames[i]

\* C6 witness: a manifest whose first frame has no file_path but an old
\* mask_path, and whose second frame has file_path and an old mask_path
\* between other fields, was written
C6_Witness ==
    /\ mf.pc = "done"
    /\ Len(mf.input_data.frames) = 2
    /\ mf.input_data.frames[1].keys = <<"mask_path", "t">>
    /\ mf.input_data.frames[2].keys = <<"t", "mask_path", "file_path", "z">>
    /\ mf.transforms_data.frames[2].vals["mask_path"] # OldMaskPath

(***************************************************************************)
(* C8                                                                      *)
(***************************************************************************)
\* the names of the listing whose extension process_folder accepts
AcceptedNames ==
    { cz.listing[k].name : k \in { j \in 1 .. Len(cz.listing) :
          str_lower(splitext_ext(cz.listing[j].name)) \in Range(img_extensions) } }

\* C8: process_folder never raises once the folder is listed; when it has
\* returned it has visited every file of an accepted extension, and the
\* count it returns is the number of output files that were written.
C8_CountIsFilesWritten ==
    cz.listable
        => /\ cz.pc # "raised"
           /\ cz.pc \in {"returned", "exit"}
                => /\ Range(cz.visited) = AcceptedNames
                   /\ cz.ret = Cardinality(DOMAIN cz.out)

(***************************************************************************)
(* C9                                                                      *)
(***************************************************************************)
\* the one image of the folder has been through apply_mask_and_colorize
Colorized == cz.pc \in {"loop", "returned", "exit"} /\ cz.i = 2 /\ ~cz.last.raised

\* C9: the image apply_mask_and_colorize returns has the input image's
\* shape; each pixel is the colour where the mask value at the nearest
\* source position is <= 127 and the input pixel where it is > 127; an
\* all-255 mask gives the input image, an all-0 mask an image of the colour
\* only; the input array is as it was decoded; the result is what was
\* written.
C9_ColorizeSemantics ==
    Colorized
        => LET image == cz.listing[1].image
               mask == cz.mask_file.mask
               result == cz.last.result
           IN /\ result.h = image.h /\ result.w = image.w
              /\ DOMAIN result.px = Cells(image.h, image.w)
              /\ \A p \in Cells(image.h, image.w) :
                   LET v == mask.px[<<(p[1] * mask.h) \div image.h,
                                      (p[2] * mask.w) \div image.w>>]
                   IN result.px[p] = IF v <= 127 THEN cz.color ELSE image.px[p]
              /\ PixelValues(mask) = {255} => result = image
              /\ PixelValues(mask) = {0} => PixelValues(result) = {cz.color}
              /\ cz.last.image = image
              /\ cz.out[os_path_join(output_folder, cz.listing[1].name)] = result

\* C9 witness: a 2 x 2 image under a 1 x 2 mask holding 127 and 128 came
\* back with the colour in one column and its own pixels in the other
C9_Witness ==
    /\ Colorized
    /\ cz.listing[1].image.h = 2 /\ cz.listing[1].image.w = 2
    /\ cz.mask_file.mask.h = 1 /\ cz.mask_file.mask.w = 2
    /\ cz.mask_file.mask.px[<<0, 0>>] = 127
    /\ cz.mask_file.mask.px[<<0, 1>>] = 128
    /\ cz.last.result.px[<<1, 0>>] = cz.color
    /\ cz.last.result.px[<<1, 1>>] = cz.listing[1].image.px[<<1, 1>>]

(***************************************************************************)
(* C11                                                                     *)
(***************************************************************************)
\* the extensions the synthesizer is to accept
AcceptedExtensions == {EXT_JPG, EXT_JPEG, EXT_PNG}

\* the paths of the files of tier t whose extension, lower-cased, is jpg,
\* jpeg or png
AcceptedPaths(t) ==
    { os_path_join(os_path_join(data_dir, image_folders[t]), gen.listing[t][k].name) :
        k \in { j \in 1 .. Len(gen.listing[t]) :
                  str_lower(splitext_ext(gen.listing[t][j].name))
                      \in AcceptedExtensions } }

\* C11: once the tier loop has globbed a tier's image directory, the paths
\* it is about to process are exactly the files of that directory whose
\* extension is jpg, jpeg or png compared case-insensitively.
C11_CaseInsensitiveEnumeration ==
    gen.pc = "image"
        => Range(gen.image_files) = AcceptedPaths(gen.t)

(***************************************************************************)
(* C12                                                                     *)
(***************************************************************************)
\* C12: from the start of a second run over the same source mask and the
\* same image directories on, the mask files are those the first run left,
\* each with the content it had then (none added, none removed, none
\* changed), and the creation of a mask directory never raises, whether
\* the directory was there or not.
C12_RerunIdempotent ==
    /\ gen.pc # "idle" => gen.err # "FileExistsError"
    /\ (gen.pc # "idle" /\ gen.run > 1) => gen.files = gen.first_files

\* C12 witness: a second run has ended after writing again the two mask
\* files the first run left
C12_Witness ==
    /\ gen.pc = "done"
    /\ gen.run = 2
    /\ Len(gen.processed) >= 2
    /\ Cardinality(DOMAIN gen.files) >= 2
    /\ gen.files = gen.first_files

(***************************************************************************)
(* C13                                                                     *)
(***************************************************************************)
\* the call resize_binary_mask_cv2(...) of main is over
RsCalled == rs.pc \in {"raised", "returned", "exit"}

\* C13: a decodable mask with target_width <= 0 or target_height <= 0
\* makes resize_binary_mask_cv2 raise cv2.error, a mask that cannot be
\* decoded makes it raise FileNotFoundError, a decodable mask with a valid
\* size raises nothing; and when either error was raised no output
\* directory was made, no output file written and nothing returned.
C13_ErrorsDistinctNoOutput ==
    RsCalled
        => /\ ~rs.readable => rs.err = "FileNotFoundError"
           /\ (rs.readable /\ (rs.target_width <= 0 \/ rs.target_height <= 0))
                => rs.err = "cv2.error"
           /\ (rs.readable /\ rs.target_width > 0 /\ rs.target_height > 0)
                => rs.err = "none"
           /\ rs.err # "none"
                => /\ rs.out_dir = FALSE
                   /\ rs.out_file = NoArray
                   /\ rs.ret = NoArray
                   /\ rs.printed # "success"

\* C13 witness: a decodable mask, a writable output path and a target
\* width that is not positive with a valid height: cv2.error was raised
C13_Witness ==
    /\ rs.pc = "raised"
    /\ rs.readable /\ rs.writable
    /\ rs.target_width <= 0 /\ rs.target_height > 0
    /\ rs.err = "cv2.error"
    /\ rs.out_dir = FALSE

(***************************************************************************)
(* C14                                                                     *)
(***************************************************************************)
\* C14: whenever resize_binary_mask_cv2 has returned, the array it
\* returned has target_height rows and target_width columns, one pixel for
\* each of their cells, whatever the shape of the mask read; the file it
\* wrote has the same shape.
C14_DimensionExactness ==
    (rs.pc = "returned" \/ (rs.pc = "exit" /\ rs.printed = "success"))
        => /\ rs.target_width > 0 /\ rs.target_height > 0
           /\ rs.ret.h = rs.target_height
           /\ rs.ret.w = rs.target_width
           /\ DOMAIN rs.ret.px = Cells(rs.target_height, rs.target_width)
           /\ rs.writable
                => /\ rs.out_file.h = rs.target_height
                   /\ rs.out_file.w = rs.target_width

\* C14 witness: a mask of 2 rows and 1 column was resampled to 1 row and
\* 3 columns (rows downscaled, columns upscaled, the aspect changed)
C14_Witness ==
    /\ rs.pc = "returned"
    /\ rs.mask.h = 2 /\ rs.mask.w = 1
    /\ rs.target_height = 1 /\ rs.target_width = 3
    /\ rs.ret.h = 1 /\ rs.ret.w = 3

(***************************************************************************)
(* C15                                                                     *)
(***************************************************************************)
\* floor(x * s / t) in exact arithmetic
ExactIndex(x, s, t) == (x * s) \div t

\* the scale factors of the sizes up to MaxWideTarget + 1, as a table
ScaleTable ==
    [sd \in (1 .. MaxWideTarget + 1) \X (1 .. MaxWideTarget + 1) |->
        inv_scale(sd[1], sd[2])] @@ <<>>

\* the source index resize reads for destination index x when it resizes
\* s pixels to t
SourceIndex(x, s, t) ==
    nearest_index(x, IF <<s, t>> \in DOMAIN ScaleTable
                     THEN ScaleTable[<<s, t>>] ELSE inv_scale(s, t), s)

\* t is s times a power of two, or s is t times a power of two
PowerOfTwoScale(s, t) == \E k \in 0 .. 12 : t = s * 2^k \/ s = t * 2^k

\* the source index i read for destination index x is floor(x * s / t) or
\* the index before it, and is floor(x * s / t) when x * s is no multiple
\* of t and when the scale is a power of two
IndexNearExact(i, x, s, t) ==
    /\ i \in 0 .. s - 1
    /\ i \in {ExactIndex(x, s, t) - 1, ExactIndex(x, s, t)}
    /\ (x * s) % t # 0 => i = ExactIndex(x, s, t)
    /\ PowerOfTwoScale(s, t) => i = ExactIndex(x, s, t)

\* a 64 x 64 source with a 10 x 10 block at the origin, resampled to
\* 256 x 256: a destination index reads the block exactly when it is below 40
BlockExample ==
    \A x \in 0 .. 255 : (SourceIndex(x, 64, 256) < 10) <=> (x < 40)

\* C15 as stated: whenever resize_binary_mask_cv2 has returned, the pixel
\* at column x, row y of its result is 255 if the source pixel at column
\* floor(x * sw / tw), row floor(y * sh / th) is above 127 and 0 otherwise.
C15_ExactFloorIndex ==
    rs.pc = "returned"
        => \A p \in Cells(rs.target_height, rs.target_width) :
             rs.ret.px[p] =
                 IF rs.mask.px[<<ExactIndex(p[1], rs.mask.h, rs.target_height),
                                 ExactIndex(p[2], rs.mask.w, rs.target_width)>>] > 127
                 THEN 255 ELSE 0

\* C15: whenever resize_binary_mask_cv2 has returned, the pixel at column
\* x, row y of its result is 255 if the source pixel at column sx, row sy
\* is above 127 and 0 otherwise, where sx = min(floor(x * ifx), sw - 1) for
\* the double ifx = 1 / (tw / sw) and the product rounded to a double, and
\* sy likewise: an existing source pixel, at floor(x * sw / tw) or one
\* before it, and at floor(x * sw / tw) when x * sw is no multiple of tw
\* and when the scale is a power of two, as in the 64 to 256 example.
C15_NearestSelection ==
    /\ BlockExample
    /\ rs.pc = "returned"
         => \A p \in Cells(rs.target_height, rs.target_width) :
              LET sy == SourceIndex(p[1], rs.mask.h, rs.target_height)
                  sx == SourceIndex(p[2], rs.mask.w, rs.target_width)
              IN /\ IndexNearExact(sy, p[1], rs.mask.h, rs.target_height)
                 /\ IndexNearExact(sx, p[2], rs.mask.w, rs.target_width)
                 /\ rs.ret.px[p] = IF rs.mask.px[<<sy, sx>>] > 127 THEN 255 ELSE 0

\* C15 witness: a one-row mask 14 wide holding 127 on columns 0 to 6 and
\* 128 from column 7 on was resampled to 18 wide; column 9 of the result
\* (9 * 14 / 18 = 7) read column 6 and is 0, column 10 is 255
C15_Witness ==
    /\ rs.pc = "returned"
    /\ rs.mask.h = 1 /\ rs.mask.w = 14
    /\ rs.target_width = 18
    /\ rs.mask.px[<<0, 6>>] = 127 /\ rs.mask.px[<<0, 7>>] = 128
    /\ rs.ret.px[<<0, 9>>] = 0
    /\ rs.ret.px[<<0, 10>>] = 255

(***************************************************************************)
(* C16                                                                     *)
(***************************************************************************)
Compared == dbg.pc \in {"compared", "done"}

\* the boolean-cast count and the count at every threshold are at most the
\* pixel count, and all are zero when the two decode results are equal
CountsBounded ==
    Compared
        => /\ dbg.diff_count = Cardinality({ p \in DOMAIN dbg.std_numpy.px :
                                    dbg.std_numpy.px[p] # dbg.custom_numpy.px[p] })
           /\ dbg.bool_diff_count <= dbg.diff_count
           /\ \A k \in 1 .. Len(thresholds) :
                  dbg.thresh_diff_count[k] <= dbg.diff_count
           /\ dbg.std_numpy = dbg.custom_numpy
                => /\ dbg.diff_count = 0
                   /\ dbg.bool_diff_count = 0
                   /\ \A k \in 1 .. Len(thresholds) : dbg.thresh_diff_count[k] = 0

ReportPaths == {output_path, std_plot_path, custom_plot_path}

\* C16 as stated: the counts are bounded by the pixel count, and the file
\* at mask_file_path is at every moment the file the script was given.
C16_CountsBoundedNoWrite ==
    /\ CountsBounded
    /\ (dbg.pc # "idle" /\ dbg.mask_file.kind # "none")
         => dbg.fs[dbg.mask_file_path] = dbg.mask_file

\* C16: the counts are bounded by the pixel count; the script changes no
\* file but its three plots under mask_debug_output, which it saves when
\* and only when it has found a pixel difference, so the file at
\* mask_file_path stays as given unless it is one of the three plots.
C16_CountsBoundedPlotsOnly ==
    /\ CountsBounded
    /\ dbg.pc # "idle"
         => /\ \A path \in DOMAIN dbg.fs \ ReportPaths :
                  path = dbg.mask_file_path /\ dbg.fs[path] = dbg.mask_file
            /\ (dbg.mask_file.kind # "none" /\ dbg.mask_file_path \notin ReportPaths)
                  => dbg.fs[dbg.mask_file_path] = dbg.mask_file
            /\ (dbg.pc = "done" /\ dbg.diff_count > 0)
                  => /\ ReportPaths \subseteq DOMAIN dbg.fs
                     /\ \A path \in ReportPaths : dbg.fs[path].kind = "plot"
            /\ ~(dbg.pc = "done" /\ dbg.diff_count > 0)
                  => /\ dbg.mask_file.kind # "none"
                          => dbg.fs[dbg.mask_file_path] = dbg.mask_file
                     /\ DOMAIN dbg.fs \subseteq {dbg.mask_file_path}

\* C16 witness: the two decodes of mask.png differ on one pixel, 127
\* against 128: one pixel difference, no boolean difference, a difference
\* at threshold 127 only; the plots are saved and mask.png is as given
C16_Witness ==
    /\ dbg.pc = "done"
    /\ dbg.mask_file_path = original_mask_path
    /\ dbg.diff_count = 1
    /\ dbg.bool_diff_count = 0
    /\ dbg.thresh_diff_count = <<0, 0, 1, 0, 0, 0>>
    /\ std_plot_path \in DOMAIN dbg.fs
    /\ dbg.fs[original_mask_path] = dbg.mask_file

====
